---- MODULE Spec2Model ----
(***************************************************************************)
(* A model of the DS2482 1-Wire bridge driver of src/src/OneWire.cpp.      *)
(*                                                                         *)
(* The driver is single threaded and blocking: every public operation is   *)
(* one action.  An operation is computed by threading a machine record m   *)
(* through operators that mirror the driver's functions one to one; m      *)
(* holds the driver's fields, the bridge chip's registers and the trace    *)
(* (log) of what the operation did on the register bus.                    *)
(*                                                                         *)
(* The bridge chip and the 1-Wire devices behind it are the environment:   *)
(* a simulated bridge with a fixed set of device ROM codes, whose faults   *)
(* (busy time, stuck busy bit, short detect, ignored configuration write,  *)
(* devices dropping off mid search) are inputs of each operation.          *)
(***************************************************************************)
EXTENDS Integers, Sequences, FiniteSets, TLC

(***************************************************************************)
(* Protocol constants of OneWire.h (the DS2482 register map).              *)
(***************************************************************************)
DS2482_COMMAND_RESET == 240
DS2482_COMMAND_SRP == 225
DS2482_COMMAND_WRITECONFIG == 210
DS2482_COMMAND_RESETWIRE == 180
DS2482_COMMAND_WRITEBYTE == 165
DS2482_COMMAND_READBYTE == 150
DS2482_COMMAND_SINGLEBIT == 135
DS2482_COMMAND_TRIPLET == 120

DS2482_POINTER_STATUS == 240
DS2482_POINTER_DATA == 225
DS2482_POINTER_CONFIG == 195

DS2482_STATUS_BUSY == 1
DS2482_STATUS_PPD == 2
DS2482_STATUS_SD == 4
DS2482_STATUS_RST == 16
DS2482_STATUS_SBR == 32
DS2482_STATUS_TSB == 64
DS2482_STATUS_DIR == 128

DS2482_CONFIG_APU == 1
DS2482_CONFIG_SPU == 4
DS2482_CONFIG_1WS == 8

DS2482_ERROR_NONE == 0
DS2482_ERROR_TIMEOUT == 1
DS2482_ERROR_CONFIG == 2
DS2482_ERROR_SHORT == 4

WIRE_COMMAND_SKIP == 204
WIRE_COMMAND_SELECT == 85
WIRE_COMMAND_SEARCH == 240

\* The bridge's address with both address pins low.
DefaultAddress == 24
\* The retry budget of waitOnBusy's for loop.
MaxRetries == 1000
\* The number of ROM bits a search pass walks, and of ROM bytes.
RomBits == 64
RomBytes == 8

(***************************************************************************)
(* Bounds of the model.                                                    *)
(***************************************************************************)
\* The largest number of devices on the simulated bus.
MaxDevices == 3
\* The longest byte sequence fed to the checksum.
MaxCrcLen == 2

(***************************************************************************)
(* 8-bit arithmetic, as C computes it on uint8_t.                          *)
(***************************************************************************)
BitOf(x, k) == (x \div (2 ^ k)) % 2

And8(a, b) ==
    BitOf(a, 0) * BitOf(b, 0) + 2 * BitOf(a, 1) * BitOf(b, 1)
    + 4 * BitOf(a, 2) * BitOf(b, 2) + 8 * BitOf(a, 3) * BitOf(b, 3)
    + 16 * BitOf(a, 4) * BitOf(b, 4) + 32 * BitOf(a, 5) * BitOf(b, 5)
    + 64 * BitOf(a, 6) * BitOf(b, 6) + 128 * BitOf(a, 7) * BitOf(b, 7)

Xor8(a, b) ==
    ((BitOf(a, 0) + BitOf(b, 0)) % 2) + 2 * ((BitOf(a, 1) + BitOf(b, 1)) % 2)
    + 4 * ((BitOf(a, 2) + BitOf(b, 2)) % 2) + 8 * ((BitOf(a, 3) + BitOf(b, 3)) % 2)
    + 16 * ((BitOf(a, 4) + BitOf(b, 4)) % 2) + 32 * ((BitOf(a, 5) + BitOf(b, 5)) % 2)
    + 64 * ((BitOf(a, 6) + BitOf(b, 6)) % 2) + 128 * ((BitOf(a, 7) + BitOf(b, 7)) % 2)

Or8(a, b) == a + b - And8(a, b)

\* ~x on a byte, after the truncation to uint8_t.
Not8(x) == 255 - (x % 256)

\* C's logical not.
LogicalNot(x) == IF x = 0 THEN 1 ELSE 0

Byte == 0..255

\* The element of a one-element set.
Only(S) == CHOOSE x \in S : TRUE

ZeroRom == [i \in 1..RomBytes |-> 0]

\* Bit i (0..63) of a ROM code held as 8 bytes, least significant bit first.
RomBit(rom, i) == BitOf(rom[(i \div 8) + 1], i % 8)

\* x & mask # 0 for a mask of one bit, as every mask of the register map is.
HasBit(x, mask) == (x \div mask) % 2 = 1

(***************************************************************************)
(* The simulated bridge: the DS2482's registers and the devices behind it. *)
(* m.env holds the faults the bridge shows during the current operation:   *)
(*   busyN      status reads that report busy after each 1-Wire command    *)
(*   stuck      the busy bit never clears                                  *)
(*   short      the 1-Wire line is shorted: a reset sets short-detect      *)
(*   ignoreCfg  write-configuration commands are not taken                 *)
(*   dropAt     the devices leave the bus at this bit of a search (-1: no) *)
(***************************************************************************)
\* The status byte the k-th consecutive status read returns.
bridgeStatus(m, k) ==
    m.st + (IF m.env.stuck \/ k <= m.busyLeft THEN DS2482_STATUS_BUSY ELSE 0)

\* The register the read pointer selects, as a requestFrom/read returns it.
bridgeRead(m) ==
    IF m.rp = DS2482_POINTER_STATUS THEN bridgeStatus(m, 1)
    ELSE IF m.rp = DS2482_POINTER_DATA THEN m.data
    ELSE m.cfg

\* The devices still taking part in the search after the bridge sampled bit
\* m.pos, and the triplet's three result bits.
tripletPart(m) == IF m.env.dropAt = m.pos THEN {} ELSE m.part
tripletId(m) == \A d \in tripletPart(m) : RomBit(d, m.pos) = 1
tripletComp(m) == \A d \in tripletPart(m) : RomBit(d, m.pos) = 0
tripletDir(m, v) ==
    IF tripletId(m) # tripletComp(m) THEN tripletId(m)
    ELSE IF tripletId(m) THEN TRUE
    ELSE v >= 128

\* The effect of one bridge command with its parameter byte.
bridgeCommand(m, cmd, arg) ==
    IF cmd = DS2482_COMMAND_SRP THEN [m EXCEPT !.rp = arg]
    ELSE IF cmd = DS2482_COMMAND_WRITECONFIG THEN
        [m EXCEPT !.rp = DS2482_POINTER_CONFIG,
                  !.cfg = IF ~m.env.ignoreCfg /\ arg \div 16 = 15 - (arg % 16)
                          THEN arg % 16 ELSE @]
    ELSE IF cmd = DS2482_COMMAND_RESETWIRE THEN
        [m EXCEPT !.rp = DS2482_POINTER_STATUS,
                  !.busyLeft = m.env.busyN,
                  !.part = {}, !.pos = 0,
                  !.st = (IF m.devs # {} THEN DS2482_STATUS_PPD ELSE 0)
                         + (IF m.env.short THEN DS2482_STATUS_SD ELSE 0)]
    ELSE IF cmd = DS2482_COMMAND_WRITEBYTE THEN
        [m EXCEPT !.rp = DS2482_POINTER_STATUS,
                  !.busyLeft = m.env.busyN,
                  !.part = IF arg = WIRE_COMMAND_SEARCH THEN m.devs ELSE {},
                  !.pos = 0]
    ELSE IF cmd = DS2482_COMMAND_READBYTE THEN
        [m EXCEPT !.rp = DS2482_POINTER_STATUS,
                  !.busyLeft = m.env.busyN,
                  !.data = 255]
    ELSE IF cmd = DS2482_COMMAND_SINGLEBIT THEN
        [m EXCEPT !.rp = DS2482_POINTER_STATUS,
                  !.busyLeft = m.env.busyN,
                  !.st = And8(m.st, DS2482_STATUS_PPD + DS2482_STATUS_SD)
                         + (IF arg >= 128
                            THEN DS2482_STATUS_SBR + DS2482_STATUS_DIR ELSE 0)]
    ELSE IF cmd = DS2482_COMMAND_TRIPLET THEN
        [m EXCEPT !.rp = DS2482_POINTER_STATUS,
                  !.busyLeft = m.env.busyN,
                  !.part = {d \in tripletPart(m) :
                               (RomBit(d, m.pos) = 1) = tripletDir(m, arg)},
                  !.pos = m.pos + 1,
                  !.st = And8(m.st, DS2482_STATUS_PPD + DS2482_STATUS_SD)
                         + (IF tripletId(m) THEN DS2482_STATUS_SBR ELSE 0)
                         + (IF tripletComp(m) THEN DS2482_STATUS_TSB ELSE 0)
                         + (IF tripletDir(m, arg) THEN DS2482_STATUS_DIR ELSE 0)]
    ELSE IF cmd = DS2482_COMMAND_RESET THEN
        [m EXCEPT !.rp = DS2482_POINTER_STATUS, !.cfg = 0,
                  !.busyLeft = 0, !.st = DS2482_STATUS_RST,
                  !.part = {}, !.pos = 0]
    ELSE m

\* Whether a bridge command carries a parameter byte.
bridgeHasArg(cmd) ==
    cmd \in {DS2482_COMMAND_SRP, DS2482_COMMAND_WRITECONFIG,
             DS2482_COMMAND_WRITEBYTE, DS2482_COMMAND_SINGLEBIT,
             DS2482_COMMAND_TRIPLET}

\* The bridge takes the bytes of one register-bus transaction.
RECURSIVE bridgeRun(_, _)
bridgeRun(m, tx) ==
    IF tx = <<>> THEN m
    ELSE IF bridgeHasArg(tx[1]) THEN
        IF Len(tx) < 2 THEN m
        ELSE bridgeRun(bridgeCommand(m, tx[1], tx[2]), SubSeq(tx, 3, Len(tx)))
    ELSE bridgeRun(bridgeCommand(m, tx[1], 0), Tail(tx))

(***************************************************************************)
(* The driver's register-bus helpers.  m.log is the trace of the current   *)
(* operation: <<"begin">>, <<"w", byte>>, <<"end">>, <<"rd", byte>>,       *)
(* <<"wait", reads, status>> and <<"err", code>>.                          *)
(***************************************************************************)
Logged(m, e) == [m EXCEPT !.log = Append(@, e)]

begin(m) == Logged([m EXCEPT !.tx = <<>>], <<"begin">>)

end(m) == Logged([bridgeRun(m, m.tx) EXCEPT !.tx = <<>>], <<"end">>)

writeByte(m, data) == Logged([m EXCEPT !.tx = Append(@, data % 256)], <<"w", data % 256>>)

readByte(m) ==
    Logged([m EXCEPT !.ret = bridgeRead(m),
                     !.busyLeft = IF m.rp = DS2482_POINTER_STATUS /\ @ > 0
                                  THEN @ - 1 ELSE @],
           <<"rd", bridgeRead(m)>>)

setError(m, code) == Logged([m EXCEPT !.err = code], <<"err", code>>)

setReadPointer(m, readPointer) ==
    end(writeByte(writeByte(begin(m), DS2482_COMMAND_SRP), readPointer))

readStatus(m) == readByte(setReadPointer(m, DS2482_POINTER_STATUS))

readData(m) == readByte(setReadPointer(m, DS2482_POINTER_DATA))

readConfig(m) == readByte(setReadPointer(m, DS2482_POINTER_CONFIG))

(***************************************************************************)
(* Busy synchronizer and configuration controller.                         *)
(***************************************************************************)
\* waitReads with the loop running while i >= 0.
waitReadsOffByOne(m) ==
    IF \E k \in 1..(MaxRetries + 1) : ~HasBit(bridgeStatus(m, k), DS2482_STATUS_BUSY)
    THEN CHOOSE k \in 1..(MaxRetries + 1) :
            /\ ~HasBit(bridgeStatus(m, k), DS2482_STATUS_BUSY)
            /\ \A j \in 1..(k - 1) : HasBit(bridgeStatus(m, j), DS2482_STATUS_BUSY)
    ELSE MaxRetries + 1

\* The number of status reads waitOnBusy's loop makes: it stops at the first
\* read whose busy bit is clear, or when the budget is spent.
waitReads(m) ==
    IF \E k \in 1..MaxRetries : ~HasBit(bridgeStatus(m, k), DS2482_STATUS_BUSY)
    THEN CHOOSE k \in 1..MaxRetries :
            /\ ~HasBit(bridgeStatus(m, k), DS2482_STATUS_BUSY)
            /\ \A j \in 1..(k - 1) : HasBit(bridgeStatus(m, j), DS2482_STATUS_BUSY)
    ELSE MaxRetries

\* waitOnBusy without the test of the busy bit after the loop.
waitOnBusyNoTimeout(m) ==
    LET n == waitReads(m)
        status == bridgeStatus(m, n)
    IN  Logged([m EXCEPT !.rp = DS2482_POINTER_STATUS, !.tx = <<>>,
                         !.busyLeft = IF @ > n THEN @ - n ELSE 0,
                         !.ret = status],
               <<"wait", n, status>>)

\* waitOnBusy taking a spent retry budget, not the busy bit, for the timeout.
waitOnBusyBudgetSpent(m) ==
    LET n == waitReads(m)
        status == bridgeStatus(m, n)
        m1 == Logged([m EXCEPT !.rp = DS2482_POINTER_STATUS, !.tx = <<>>,
                               !.busyLeft = IF @ > n THEN @ - n ELSE 0,
                               !.ret = status],
                     <<"wait", n, status>>)
    IN  IF n = MaxRetries
        THEN setError(m1, DS2482_ERROR_TIMEOUT)
        ELSE m1

waitOnBusy(m) ==
    LET n == waitReads(m)
        status == bridgeStatus(m, n)
        m1 == Logged([m EXCEPT !.rp = DS2482_POINTER_STATUS, !.tx = <<>>,
                               !.busyLeft = IF @ > n THEN @ - n ELSE 0,
                               !.ret = status],
                     <<"wait", n, status>>)
    IN  IF HasBit(status, DS2482_STATUS_BUSY)
        THEN setError(m1, DS2482_ERROR_TIMEOUT)
        ELSE m1

\* configPayload without the complement in the upper nibble.
configPayloadPlain(config) == config % 256

\* config | (~config)<<4, truncated to the byte writeByte takes.
configPayload(config) == Or8(config % 256, (Not8(config) * 16) % 256)

\* writeConfig comparing the byte read back with the payload byte it sent.
writeConfigComparePayload(m, config) ==
    LET m0 == Logged(m, <<"writeConfig", config>>)
        m1 == waitOnBusy(m0)
        m2 == end(writeByte(writeByte(begin(m1), DS2482_COMMAND_WRITECONFIG),
                            configPayload(config)))
        m3 == readByte(m2)
    IN  IF m3.ret # configPayload(config) THEN setError(m3, DS2482_ERROR_CONFIG) ELSE m3

writeConfig(m, config) ==
    LET m0 == Logged(m, <<"writeConfig", config>>)
        m1 == waitOnBusy(m0)
        m2 == end(writeByte(writeByte(begin(m1), DS2482_COMMAND_WRITECONFIG),
                            configPayload(config)))
        m3 == readByte(m2)
    IN  IF m3.ret # config THEN setError(m3, DS2482_ERROR_CONFIG) ELSE m3

setStrongPullup(m) ==
    LET r == readConfig(m)
    IN  writeConfig(r, Or8(r.ret, DS2482_CONFIG_SPU))

clearStrongPullup(m) ==
    LET r == readConfig(m)
    IN  writeConfig(r, And8(r.ret, LogicalNot(DS2482_CONFIG_SPU)))

(***************************************************************************)
(* Bus reset and the bit/byte transactions.                                *)
(***************************************************************************)
\* wireResetCycle reporting no presence once an error is on record.
wireResetCycleFatal(m2) ==
    LET m3 == waitOnBusy(m2)
        m4 == end(writeByte(begin(m3), DS2482_COMMAND_RESETWIRE))
        m5 == waitOnBusy(m4)
        status == m5.ret
        m6 == IF HasBit(status, DS2482_STATUS_SD)
              THEN setError(m5, DS2482_ERROR_SHORT) ELSE m5
    IN  [m6 EXCEPT !.ret = IF HasBit(status, DS2482_STATUS_PPD)
                              /\ m6.err = DS2482_ERROR_NONE THEN 1 ELSE 0]

\* The code of wireReset after clearStrongPullup() returned.
wireResetCycle(m2) ==
    LET m3 == waitOnBusy(m2)
        m4 == end(writeByte(begin(m3), DS2482_COMMAND_RESETWIRE))
        m5 == waitOnBusy(m4)
        status == m5.ret
        m6 == IF HasBit(status, DS2482_STATUS_SD)
              THEN setError(m5, DS2482_ERROR_SHORT) ELSE m5
    IN  [m6 EXCEPT !.ret = IF HasBit(status, DS2482_STATUS_PPD) THEN 1 ELSE 0]

\* wireReset without the call of clearStrongPullup.
wireResetNoClear(m) == wireResetCycle(waitOnBusy(m))

\* wireReset starting with a cleared error record.
wireResetClearsError(m) ==
    Only({wireResetCycle(m2) :
             m2 \in {clearStrongPullup(waitOnBusy([m EXCEPT !.err = DS2482_ERROR_NONE]))}})

wireReset(m) ==
    Only({wireResetCycle(m2) : m2 \in {clearStrongPullup(waitOnBusy(m))}})

wireWriteByte(m, data, power) ==
    LET m1 == waitOnBusy(m)
        m2 == IF power # 0 THEN setStrongPullup(m1) ELSE m1
    IN  end(writeByte(writeByte(begin(m2), DS2482_COMMAND_WRITEBYTE), data))

\* write(DS2482_COMMAND_RESET) is OneWire::write, that is wireWriteByte
\* without power, called between begin() and end().
deviceReset(m) ==
    end(wireWriteByte(begin(m), DS2482_COMMAND_RESET, 0))

\* cfgreg | (~cfgreg)<<4, truncated to the byte Wire.write sends.
inlineConfigPayload(cfgreg) == Or8(cfgreg % 256, (Not8(cfgreg) * 16) % 256)

\* One pass of wireWriteBytes' loop: Wire.write and Wire.requestFrom inside
\* the transaction begin() opened.
wireWriteBytesStep(m, data, power) ==
    LET a == readByte(writeByte(writeByte(m, DS2482_COMMAND_SRP), DS2482_POINTER_CONFIG))
        cfgreg == Or8(a.ret, DS2482_CONFIG_SPU)
        b == readByte(writeByte(writeByte(a, DS2482_COMMAND_WRITECONFIG),
                                inlineConfigPayload(cfgreg)))
        m1 == IF power = 0 THEN m
              ELSE IF b.ret # cfgreg THEN setError(b, DS2482_ERROR_CONFIG)
              ELSE b
    IN  writeByte(writeByte(m1, DS2482_COMMAND_WRITEBYTE), data)

RECURSIVE wireWriteBytesLoop(_, _, _, _)
wireWriteBytesLoop(m, dbuf, i, power) ==
    IF i > Len(dbuf) THEN m
    ELSE wireWriteBytesLoop(
             Only({wireWriteBytesStep(m1, dbuf[i], power) : m1 \in {m}}),
             dbuf, i + 1, power)

wireWriteBytes(m, dbuf, power) ==
    end(wireWriteBytesLoop(begin(waitOnBusy(m)), dbuf, 1, power))

wireReadByte(m) ==
    LET m1 == waitOnBusy(m)
        m2 == end(writeByte(begin(m1), DS2482_COMMAND_READBYTE))
        m3 == waitOnBusy(m2)
    IN  readData(m3)

wireWriteBit(m, data, power) ==
    LET m1 == waitOnBusy(m)
        m2 == IF power # 0 THEN setStrongPullup(m1) ELSE m1
    IN  end(writeByte(writeByte(begin(m2), DS2482_COMMAND_SINGLEBIT),
                      IF data # 0 THEN 128 ELSE 0))

wireReadBit(m) ==
    LET m1 == wireWriteBit(m, 1, 0)
        m2 == waitOnBusy(m1)
    IN  [m2 EXCEPT !.ret = IF HasBit(m2.ret, DS2482_STATUS_SBR) THEN 1 ELSE 0]

wireSkip(m) == wireWriteByte(m, WIRE_COMMAND_SKIP, 0)

RECURSIVE wireSelectLoop(_, _, _)
wireSelectLoop(m, rom, i) ==
    IF i < RomBytes
    THEN Only({wireSelectLoop(written, rom, i + 1) :
                  written \in {wireWriteByte(m, rom[i + 1], 0)}})
    ELSE m

wireSelect(m, rom) == wireSelectLoop(wireWriteByte(m, WIRE_COMMAND_SELECT, 0), rom, 0)

(***************************************************************************)
(* ROM search.                                                             *)
(***************************************************************************)
\* wireResetSearch with the loop one byte short.
wireResetSearchShort(m) ==
    [m EXCEPT !.disc = 0, !.flag = 0,
              !.addr = [i \in 1..RomBytes |-> IF i < RomBytes THEN 0 ELSE m.addr[i]]]

wireResetSearch(m) ==
    [m EXCEPT !.disc = 0, !.flag = 0, !.addr = ZeroRom]

\* searchDirection with the branch at the last discrepancy not flipped.
searchDirectionNoFlip(m, i) ==
    IF i <= m.disc
    THEN And8(m.addr[(i \div 8) + 1], 2 ^ (i % 8))
    ELSE 0

\* The direction wireSearch asks the triplet to take at bit i.
searchDirection(m, i) ==
    IF i < m.disc
    THEN And8(m.addr[(i \div 8) + 1], 2 ^ (i % 8))
    ELSE IF i = m.disc THEN 1 ELSE 0

\* One pass of wireSearch's for loop, at bit i.  s.m is the machine, s.last_zero
\* the local of that name, and s.go is FALSE once the loop has returned 0.
wireSearchBit(s, i) ==
    IF ~s.go THEN s
    ELSE LET searchByte == i \div 8
             searchBit == 2 ^ (i % 8)
             m1 == waitOnBusy(s.m)
             m2 == end(writeByte(writeByte(begin(m1), DS2482_COMMAND_TRIPLET),
                                 IF searchDirection(s.m, i) # 0 THEN 128 ELSE 0))
             m3 == waitOnBusy(m2)
             status == m3.ret
             id == HasBit(status, DS2482_STATUS_SBR)
             comp_id == HasBit(status, DS2482_STATUS_TSB)
             direction == HasBit(status, DS2482_STATUS_DIR)
         IN  IF id /\ comp_id
             THEN [m |-> [m3 EXCEPT !.ret = 0], last_zero |-> s.last_zero, go |-> FALSE]
             ELSE [m |-> [m3 EXCEPT !.addr[searchByte + 1] =
                                       IF direction THEN Or8(@, searchBit)
                                       ELSE And8(@, Not8(searchBit))],
                   last_zero |-> IF ~id /\ ~comp_id /\ ~direction THEN i ELSE s.last_zero,
                   go |-> TRUE]

\* The passes at bits lo..hi, in order: the first half of the range is run to
\* its end state, and the second half starts from that state.
RECURSIVE wireSearchLoop(_, _, _)
wireSearchLoop(s, lo, hi) ==
    IF lo = hi THEN wireSearchBit(s, lo)
    ELSE Only({wireSearchLoop(half, ((lo + hi) \div 2) + 1, hi) :
                  half \in {wireSearchLoop(s, lo, (lo + hi) \div 2)}})

\* wireSearchEnd storing the discrepancy of a pass the loop gave up.
wireSearchEndStoresAborted(s) ==
    IF ~s.go THEN [s.m EXCEPT !.disc = s.last_zero]
    ELSE [s.m EXCEPT !.disc = s.last_zero,
                     !.flag = IF s.last_zero = 0 THEN 1 ELSE @,
                     !.out = s.m.addr,
                     !.ret = 1]

\* The code of wireSearch after its for loop.
wireSearchEnd(s) ==
    IF ~s.go THEN s.m
    ELSE [s.m EXCEPT !.disc = s.last_zero,
                     !.flag = IF s.last_zero = 0 THEN 1 ELSE @,
                     !.out = s.m.addr,
                     !.ret = 1]

\* wireSearch without the test of searchLastDeviceFlag.
wireSearchNoLatch(m) ==
    LET m1 == wireReset(m)
    IN  IF m1.ret = 0 THEN [m1 EXCEPT !.ret = 0]
        ELSE wireSearchEnd(wireSearchLoop(
               [m |-> wireWriteByte(waitOnBusy(m1), WIRE_COMMAND_SEARCH, 0),
                last_zero |-> 0, go |-> TRUE],
               0, RomBits - 1))

wireSearch(m) ==
    IF m.flag # 0 THEN [m EXCEPT !.ret = 0]
    ELSE LET m1 == wireReset(m)
         IN  IF m1.ret = 0 THEN [m1 EXCEPT !.ret = 0]
             ELSE wireSearchEnd(wireSearchLoop(
                    [m |-> wireWriteByte(waitOnBusy(m1), WIRE_COMMAND_SEARCH, 0),
                     last_zero |-> 0, go |-> TRUE],
                    0, RomBits - 1))

(***************************************************************************)
(* Checksum: the table of the table-driven crc8 and the two crc8 steps.    *)
(***************************************************************************)
dscrc_table ==
    << 0, 94, 188, 226, 97, 63, 221, 131, 194, 156, 126, 32, 163, 253, 31, 65,
       157, 195, 33, 127, 252, 162, 64, 30, 95, 1, 227, 189, 62, 96, 130, 220,
       35, 125, 159, 193, 66, 28, 254, 160, 225, 191, 93, 3, 128, 222, 60, 98,
       190, 224, 2, 92, 223, 129, 99, 61, 124, 34, 192, 158, 29, 67, 161, 255,
       70, 24, 250, 164, 39, 121, 155, 197, 132, 218, 56, 102, 229, 187, 89, 7,
       219, 133, 103, 57, 186, 228, 6, 88, 25, 71, 165, 251, 120, 38, 196, 154,
       101, 59, 217, 135, 4, 90, 184, 230, 167, 249, 27, 69, 198, 152, 122, 36,
       248, 166, 68, 26, 153, 199, 37, 123, 58, 100, 134, 216, 91, 5, 231, 185,
       140, 210, 48, 110, 237, 179, 81, 15, 78, 16, 242, 172, 47, 113, 147, 205,
       17, 79, 173, 243, 112, 46, 204, 146, 211, 141, 111, 49, 178, 236, 14, 80,
       175, 241, 19, 77, 206, 144, 114, 44, 109, 51, 209, 143, 12, 82, 176, 238,
       50, 108, 142, 208, 83, 13, 239, 177, 240, 174, 76, 18, 145, 207, 45, 115,
       202, 148, 118, 40, 171, 245, 23, 73, 8, 86, 180, 234, 105, 55, 213, 139,
       87, 9, 235, 181, 54, 104, 138, 212, 149, 203, 41, 119, 244, 170, 72, 22,
       233, 183, 85, 11, 136, 214, 52, 106, 43, 117, 151, 201, 74, 20, 246, 168,
       116, 42, 200, 150, 21, 75, 169, 247, 182, 232, 10, 84, 215, 137, 107, 53 >>

\* One pass of the table-driven crc8's while loop.
crc8TableStep(crc, inbyte) == dscrc_table[Xor8(crc, inbyte) + 1]

\* The feedback value of the bitwise crc8.
CrcFeedback == 140

\* The inner for loop of the bitwise crc8, i iterations left.
RECURSIVE crc8BitLoop(_, _, _)
crc8BitLoop(crc, inbyte, i) ==
    IF i = 0 THEN crc
    ELSE LET mix == And8(Xor8(crc, inbyte), 1)
             shifted == crc \div 2
         IN  crc8BitLoop(IF mix # 0 THEN Xor8(shifted, CrcFeedback) ELSE shifted,
                         inbyte \div 2, i - 1)

\* crc8BitStep with the inner loop one iteration short.
crc8BitStepShort(crc, inbyte) == crc8BitLoop(crc, inbyte, 7)

\* One pass of the bitwise crc8's while loop.
crc8BitStep(crc, inbyte) == crc8BitLoop(crc, inbyte, 8)

(***************************************************************************)
(* State.                                                                  *)
(***************************************************************************)
VARIABLES
    mAddress,               \* the bridge's address on the register bus
    mError,                 \* the driver's error record
    searchLastDiscrepancy,  \* the search cursor
    searchLastDeviceFlag,
    searchAddress,          \* the ROM buffer, 8 bytes
    newAddr,                \* the caller's buffer passed to search()
    devices,                \* the ROM codes on the simulated bus
    cfgReg,                 \* the bridge's configuration register
    op,                     \* the last operation: its inputs, result and trace
    sweep,                  \* "none", "open" after reset_search, "closed" after a search returned 0
    found,                  \* the ROM codes search returned in this sweep
    dup,                    \* a ROM code was returned twice in this sweep
    clean,                  \* every search of this sweep met a fault-free bridge
    crcT, crcB,             \* the accumulators of the table-driven and the bitwise crc8
    crcIn, crcLen,          \* the next input byte, and the bytes folded so far
    cfgValue,               \* a configuration value, and the payload bytes
    cfgFrame, cfgInline     \* writeConfig and wireWriteBytes build for it

vars == <<mAddress, mError, searchLastDiscrepancy, searchLastDeviceFlag, searchAddress,
          newAddr, devices, cfgReg, op, sweep, found, dup, clean,
          crcT, crcB, crcIn, crcLen, cfgValue, cfgFrame, cfgInline>>

driverVars == <<mAddress, mError, searchLastDiscrepancy, searchLastDeviceFlag, searchAddress,
                newAddr, devices, cfgReg, op, sweep, found, dup, clean>>

crcVars == <<crcT, crcB, crcIn, crcLen>>

frameVars == <<cfgValue, cfgFrame, cfgInline>>

(***************************************************************************)
(* Inputs.                                                                 *)
(***************************************************************************)
Rom(b0, b3, b7) == [i \in 1..RomBytes |->
                      IF i = 1 THEN b0 ELSE IF i = 4 THEN b3 ELSE IF i = 8 THEN b7 ELSE 0]

\* The ROM codes a simulated bus draws from: they differ at bit 0, bit 1,
\* bit 28 and bit 63.
Pool == {Rom(0, 0, 0), Rom(1, 0, 0), Rom(3, 0, 0), Rom(2, 16, 128), Rom(2, 16, 0)}

DeviceSets == {D \in SUBSET Pool : Cardinality(D) <= MaxDevices}

\* What the caller's buffer holds before any search wrote it.
UnwrittenRom == [i \in 1..RomBytes |-> 170]

NoFault == [busyN |-> 0, stuck |-> FALSE, short |-> FALSE, ignoreCfg |-> FALSE, dropAt |-> -1]
SlowBridge == [NoFault EXCEPT !.busyN = 1]
TimeoutBridge == [NoFault EXCEPT !.busyN = MaxRetries]
ShortedBus == [NoFault EXCEPT !.short = TRUE]
DeafConfig == [NoFault EXCEPT !.ignoreCfg = TRUE]
DropBits == {RomBits - 1}
Dropping == {[NoFault EXCEPT !.dropAt = k] : k \in DropBits}

\* A bridge whose busy bit never clears, alone and with one other fault.
Stuck == [NoFault EXCEPT !.stuck = TRUE]
StuckShorted == [Stuck EXCEPT !.short = TRUE]
StuckDeaf == [Stuck EXCEPT !.ignoreCfg = TRUE]

\* A bridge whose busy bit clears on the last read of the retry budget.
LastRead == [NoFault EXCEPT !.busyN = MaxRetries - 1]

\* A bridge busy for the whole retry budget that ignores configuration writes.
TimeoutDeaf == [TimeoutBridge EXCEPT !.ignoreCfg = TRUE]

FaultFree(env) == env \in {NoFault, SlowBridge}

DataBytes == {68}
CfgValues == {1, 9}
DataBuffers == {<<68>>, <<68, 190>>}

(***************************************************************************)
(* Operations.  Machine(env) is the state an operation starts from, and    *)
(* Commit writes back what it left.                                        *)
(***************************************************************************)
Machine(env) ==
    [address |-> mAddress, err |-> mError, disc |-> searchLastDiscrepancy, flag |-> searchLastDeviceFlag,
     addr |-> searchAddress, out |-> newAddr,
     cfg |-> cfgReg, st |-> 0, rp |-> DS2482_POINTER_STATUS, data |-> 0,
     busyLeft |-> env.busyN, part |-> {}, pos |-> 0, devs |-> devices,
     env |-> env, tx |-> <<>>, log |-> <<>>, ret |-> 0]

OpRecord(name, data, power, rom, env, m) ==
    [name |-> name, data |-> data, power |-> power, rom |-> rom, env |-> env,
     ret |-> m.ret, log |-> m.log]

Commit(name, data, power, rom, env, m) ==
    /\ mError' = m.err
    /\ searchLastDiscrepancy' = m.disc
    /\ searchLastDeviceFlag' = m.flag
    /\ searchAddress' = m.addr
    /\ newAddr' = m.out
    /\ cfgReg' = m.cfg
    /\ op' = OpRecord(name, data, power, rom, env, m)
    /\ mAddress' = m.address
    /\ UNCHANGED <<devices, crcVars, frameVars>>

SweepUnchanged == UNCHANGED <<sweep, found, dup, clean>>

reset_search ==
    /\ \E m \in {wireResetSearch(Machine(NoFault))} :
            Commit("reset_search", 0, 0, ZeroRom, NoFault, m)
    /\ sweep' = "open"
    /\ found' = {}
    /\ dup' = FALSE
    /\ clean' = TRUE

search(envs) ==
    \E env \in envs :
        \E m \in {wireSearch(Machine(env))} :
            /\ Commit("search", 0, 0, ZeroRom, env, m)
            /\ sweep' = IF sweep = "open" /\ m.ret = 0 THEN "closed" ELSE sweep
            /\ found' = IF sweep = "open" /\ m.ret = 1 THEN found \cup {m.out} ELSE found
            /\ dup' = (dup \/ (sweep = "open" /\ m.ret = 1 /\ m.out \in found))
            /\ clean' = (clean /\ (sweep = "open" => FaultFree(env)))

reset(envs) ==
    \E env \in envs :
        \E m \in {wireReset(Machine(env))} :
            /\ Commit("reset", 0, 0, ZeroRom, env, m)
            /\ SweepUnchanged

write(envs) ==
    \E env \in envs, v \in DataBytes, power \in {0, 1} :
        \E m \in {wireWriteByte(Machine(env), v, power)} :
            /\ Commit("write", v, power, ZeroRom, env, m)
            /\ SweepUnchanged

CallDeviceReset(envs) ==
    \E env \in envs :
        \E m \in {deviceReset(Machine(env))} :
            /\ Commit("deviceReset", 0, 0, ZeroRom, env, m)
            /\ SweepUnchanged

write_bytes(envs) ==
    \E env \in envs, dbuf \in DataBuffers, power \in {0, 1} :
        \E m \in {wireWriteBytes(Machine(env), dbuf, power)} :
            /\ Commit("write_bytes", Len(dbuf), power, ZeroRom, env, m)
            /\ SweepUnchanged

read(envs) ==
    \E env \in envs :
        \E m \in {wireReadByte(Machine(env))} :
            /\ Commit("read", 0, 0, ZeroRom, env, m)
            /\ SweepUnchanged

write_bit(envs) ==
    \E env \in envs, v \in {0, 1}, power \in {0, 1} :
        \E m \in {wireWriteBit(Machine(env), v, power)} :
            /\ Commit("write_bit", v, power, ZeroRom, env, m)
            /\ SweepUnchanged

read_bit(envs) ==
    \E env \in envs :
        \E m \in {wireReadBit(Machine(env))} :
            /\ Commit("read_bit", 0, 0, ZeroRom, env, m)
            /\ SweepUnchanged

select(envs) ==
    \E env \in envs, rom \in devices \cup {newAddr} :
        \E m \in {wireSelect(Machine(env), rom)} :
            /\ Commit("select", 0, 0, rom, env, m)
            /\ SweepUnchanged

skip(envs) ==
    \E env \in envs :
        \E m \in {wireSkip(Machine(env))} :
            /\ Commit("skip", 0, 0, ZeroRom, env, m)
            /\ SweepUnchanged

CallWriteConfig(envs, values) ==
    \E env \in envs, config \in values :
        \E m \in {writeConfig(Machine(env), config)} :
            /\ Commit("writeConfig", config, 0, ZeroRom, env, m)
            /\ SweepUnchanged

CallSetStrongPullup(envs) ==
    \E env \in envs :
        \E m \in {setStrongPullup(Machine(env))} :
            /\ Commit("setStrongPullup", 0, 0, ZeroRom, env, m)
            /\ SweepUnchanged

CallClearStrongPullup(envs) ==
    \E env \in envs :
        \E m \in {clearStrongPullup(Machine(env))} :
            /\ Commit("clearStrongPullup", 0, 0, ZeroRom, env, m)
            /\ SweepUnchanged

(***************************************************************************)
(* Specifications.                                                         *)
(***************************************************************************)
NoOp == [name |-> "none", data |-> 0, power |-> 0, rom |-> ZeroRom, env |-> NoFault,
         ret |-> 0, log |-> <<>>]

\* The search cursor is not set by the constructors: an object in static
\* storage starts zeroed, any other holds whatever the memory held.
Indeterminate ==
    {[disc |-> 0, flag |-> 0, addr |-> ZeroRom],
     [disc |-> 9, flag |-> 0, addr |-> [i \in 1..RomBytes |-> 255]],
     [disc |-> 9, flag |-> 0, addr |-> ZeroRom],
     [disc |-> 0, flag |-> 1, addr |-> ZeroRom]}

InitCommon ==
    /\ mError = DS2482_ERROR_NONE
    /\ newAddr = UnwrittenRom
    /\ cfgReg = 0
    /\ op = NoOp
    /\ sweep = "none"
    /\ found = {}
    /\ dup = FALSE
    /\ clean = TRUE
    /\ crcT = 0 /\ crcB = 0 /\ crcIn = 0 /\ crcLen = 0
    /\ cfgValue = 0 /\ cfgFrame = <<>> /\ cfgInline = <<>>

\* The constructors: 0x18, or 0x18 | address for the address pins given.
OneWire(pins) == mAddress \in {Or8(DefaultAddress, address) : address \in pins}

InitCursor(S) ==
    \E c \in S :
        /\ searchLastDiscrepancy = c.disc
        /\ searchLastDeviceFlag = c.flag
        /\ searchAddress = c.addr

\* The bus operations against a bridge with single faults, on a small bus.
MainDeviceSets == {{}, {Rom(1, 0, 0), Rom(3, 0, 0)}}

Init ==
    /\ InitCommon
    /\ OneWire({0})
    /\ InitCursor({[disc |-> 0, flag |-> 0, addr |-> ZeroRom]})
    /\ devices \in MainDeviceSets

Next ==
    \/ reset_search
    \/ search({NoFault, ShortedBus} \cup Dropping)
    \/ reset({NoFault, ShortedBus, TimeoutBridge})
    \/ write({NoFault, DeafConfig})
    \/ read({NoFault, TimeoutBridge})
    \/ write_bit({NoFault})
    \/ read_bit({NoFault})
    \/ select({NoFault})
    \/ skip({NoFault})
    \/ write_bytes({NoFault})
    \/ CallDeviceReset({NoFault})

Spec == Init /\ [][Next]_vars

\* The configuration controller and the operations that use it.
InitConfig ==
    /\ InitCommon
    /\ OneWire({0})
    /\ InitCursor({[disc |-> 0, flag |-> 0, addr |-> ZeroRom]})
    /\ devices \in {{Rom(1, 0, 0)}}

NextConfig ==
    \/ CallWriteConfig({NoFault, DeafConfig, TimeoutBridge}, CfgValues)
    \/ CallSetStrongPullup({NoFault, DeafConfig})
    \/ CallClearStrongPullup({NoFault, DeafConfig})
    \/ reset({NoFault, ShortedBus, DeafConfig, TimeoutBridge, TimeoutDeaf})
    \/ write({NoFault, DeafConfig, TimeoutBridge})
    \/ write_bit({NoFault, DeafConfig})
    \/ CallDeviceReset({NoFault, SlowBridge})

SpecConfig == InitConfig /\ [][NextConfig]_vars

\* The search against every simulated bus, from any cursor the constructor
\* may leave.
InitSearch ==
    /\ InitCommon
    /\ OneWire({0, 3})
    /\ InitCursor(Indeterminate)
    /\ devices \in DeviceSets

NextSearch ==
    \/ reset_search
    \/ search({NoFault, SlowBridge, ShortedBus, [NoFault EXCEPT !.dropAt = 9]})

SpecSearch == InitSearch /\ [][NextSearch]_vars

\* Every operation against a bridge whose busy bit never clears.
InitBusy ==
    /\ InitCommon
    /\ OneWire({0})
    /\ InitCursor({[disc |-> 0, flag |-> 0, addr |-> ZeroRom]})
    /\ devices \in {{}, {Rom(1, 0, 0)}}

NextBusy ==
    \/ reset_search
    \/ search({Stuck, StuckShorted})
    \/ reset({Stuck, StuckShorted, StuckDeaf})
    \/ write({Stuck, StuckDeaf})
    \/ write_bytes({Stuck})
    \/ read({Stuck})
    \/ write_bit({Stuck})
    \/ read_bit({Stuck})
    \/ select({Stuck})
    \/ skip({Stuck})
    \/ CallWriteConfig({Stuck, StuckDeaf}, {1})
    \/ CallSetStrongPullup({Stuck, StuckDeaf})
    \/ CallClearStrongPullup({Stuck})

SpecBusy == InitBusy /\ [][NextBusy]_vars

\* The busy synchronizer against bridges busy for no read, one read, all but
\* the last read of the budget, and the whole budget.
BusyBridges == {NoFault, SlowBridge, LastRead, TimeoutBridge}

InitWait ==
    /\ InitCommon
    /\ OneWire({0})
    /\ InitCursor({[disc |-> 0, flag |-> 0, addr |-> ZeroRom]})
    /\ devices \in {{}, {Rom(1, 0, 0)}}

NextWait ==
    \/ reset(BusyBridges)
    \/ read(BusyBridges)
    \/ read_bit(BusyBridges)
    \/ write_bit(BusyBridges)
    \/ CallWriteConfig(BusyBridges, CfgValues)

SpecWait == InitWait /\ [][NextWait]_vars

\* The configuration frame of writeConfig and of wireWriteBytes, for every
\* value a byte holds, and the operations that send it.
InitFrame ==
    /\ OneWire({0})
    /\ mError = DS2482_ERROR_NONE
    /\ InitCursor({[disc |-> 0, flag |-> 0, addr |-> ZeroRom]})
    /\ newAddr = UnwrittenRom
    /\ devices = {}
    /\ cfgReg = 0
    /\ op = NoOp
    /\ sweep = "none" /\ found = {} /\ dup = FALSE /\ clean = TRUE
    /\ crcT = 0 /\ crcB = 0 /\ crcIn = 0 /\ crcLen = 0
    /\ cfgValue \in Byte
    /\ cfgFrame = <<>>
    /\ cfgInline = <<>>

\* The two bytes each call site writes for the value cfgValue.
buildFrame ==
    /\ cfgFrame = <<>>
    /\ cfgFrame' = <<DS2482_COMMAND_WRITECONFIG, configPayload(cfgValue)>>
    /\ cfgInline' = <<DS2482_COMMAND_WRITECONFIG, inlineConfigPayload(cfgValue)>>
    /\ UNCHANGED <<cfgValue, driverVars, crcVars>>

NextFrame ==
    \/ buildFrame
    \/ CallWriteConfig({NoFault, DeafConfig}, {cfgValue})
    \/ write_bytes({NoFault, ShortedBus})
    \/ reset({NoFault, ShortedBus})

SpecFrame == InitFrame /\ [][NextFrame]_vars

\* The two checksum steps, from every accumulator and every input byte.
InitCrc ==
    /\ OneWire({0})
    /\ mError = DS2482_ERROR_NONE
    /\ InitCursor({[disc |-> 0, flag |-> 0, addr |-> ZeroRom]})
    /\ newAddr = UnwrittenRom
    /\ devices = {}
    /\ cfgReg = 0
    /\ op = NoOp
    /\ sweep = "none" /\ found = {} /\ dup = FALSE /\ clean = TRUE
    /\ crcT \in Byte
    /\ crcB = crcT
    /\ crcIn \in Byte
    /\ crcLen = 0
    /\ cfgValue = 0 /\ cfgFrame = <<>> /\ cfgInline = <<>>

\* Both implementations fold the input byte; the caller supplies the next one.
crc8 ==
    /\ crcLen < MaxCrcLen
    /\ crcT' = crc8TableStep(crcT, crcIn)
    /\ crcB' = crc8BitStep(crcB, crcIn)
    /\ crcIn' \in {0, 1, 255}
    /\ crcLen' = crcLen + 1
    /\ UNCHANGED <<driverVars, frameVars>>

NextCrc == crc8

SpecCrc == InitCrc /\ [][NextCrc]_vars

(***************************************************************************)
(* Reading an operation's trace.                                           *)
(***************************************************************************)
Events(log, kind) == {i \in DOMAIN log : log[i][1] = kind}

First(S) == CHOOSE i \in S : \A j \in S : i <= j
Last(S) == CHOOSE i \in S : \A j \in S : j <= i

\* Where a transaction starts with the bridge command cmd.
Commands(log, cmd) ==
    {i \in DOMAIN log : i > 1 /\ log[i] = <<"w", cmd>> /\ log[i - 1] = <<"begin">>}

\* The parameter byte sent after the command at i.
Payload(log, i) == log[i + 1][2]

(***************************************************************************)
(* C1: after reset_search, against a bridge simulating a fixed set of      *)
(* N >= 1 devices without faults, the searches before the first one that   *)
(* returns 0 return every device's ROM code.                               *)
(***************************************************************************)
C1_Completeness ==
    (sweep = "closed" /\ clean /\ devices # {}) => devices \subseteq found

(***************************************************************************)
(* C2: against a bridge simulating a fixed set of devices, every search    *)
(* that returns 1 leaves a ROM code of the set in the caller's buffer, and *)
(* no ROM code is returned twice between a reset_search and the first      *)
(* search that returns 0.                                                  *)
(***************************************************************************)
C2_SoundUnique ==
    /\ (op.name = "search" /\ op.ret = 1 /\ FaultFree(op.env)) => newAddr \in devices
    /\ clean => ~dup

C2_Witness ==
    /\ op.name = "search" /\ op.ret = 1 /\ FaultFree(op.env)
    /\ sweep = "open" /\ clean
    /\ Cardinality(found) = MaxDevices
    /\ newAddr \in found

(***************************************************************************)
(* C3: once searchLastDeviceFlag is set every search returns 0, whatever   *)
(* the bridge does and whatever operations run in between, and only        *)
(* reset_search clears the flag.                                           *)
(***************************************************************************)
C3_LastDeviceLatch ==
    [][/\ (searchLastDeviceFlag # 0 /\ op'.name = "search") =>
            (op'.ret = 0 /\ searchLastDeviceFlag' # 0)
       /\ (searchLastDeviceFlag # 0 /\ searchLastDeviceFlag' = 0) =>
            op'.name = "reset_search"]_vars

C3_Witness ==
    /\ op.name = "search" /\ op.ret = 0 /\ op.log = <<>>
    /\ searchLastDeviceFlag # 0
    /\ devices # {}

(***************************************************************************)
(* C4: whenever the status byte captured after the 1-Wire-reset command    *)
(* has the short-detect bit set, reset returns 0 and the error record is   *)
(* DS2482_ERROR_SHORT.                                                     *)
(***************************************************************************)
ResetStatus(log) == log[First({i \in Events(log, "wait") :
                                 i > Last(Commands(log, DS2482_COMMAND_RESETWIRE))})][3]

C4_ShortYieldsFalse ==
    (op.name = "reset" /\ HasBit(ResetStatus(op.log), DS2482_STATUS_SD)) =>
        (op.ret = 0 /\ mError = DS2482_ERROR_SHORT)

(***************************************************************************)
(* C5: in every reset, a write-configuration command with the strong       *)
(* pullup bit clear is sent before the 1-Wire-reset command, and no        *)
(* write-configuration command with the bit set is sent between the two.   *)
(***************************************************************************)
C5_PullupClearedBeforeReset ==
    op.name = "reset" =>
        /\ Commands(op.log, DS2482_COMMAND_RESETWIRE) # {}
        /\ \A j \in Commands(op.log, DS2482_COMMAND_RESETWIRE) :
              \E i \in Commands(op.log, DS2482_COMMAND_WRITECONFIG) :
                  /\ i < j
                  /\ ~HasBit(Payload(op.log, i), DS2482_CONFIG_SPU)
                  /\ \A k \in Commands(op.log, DS2482_COMMAND_WRITECONFIG) :
                        (i < k /\ k < j) => ~HasBit(Payload(op.log, k), DS2482_CONFIG_SPU)

\* A reset that found the strong pullup set in the configuration it read.
C5_Witness ==
    /\ op.name = "reset"
    /\ \E i \in Events(op.log, "rd") : HasBit(op.log[i][2], DS2482_CONFIG_SPU)
    /\ Commands(op.log, DS2482_COMMAND_RESETWIRE) # {}

(***************************************************************************)
(* C6: against a bridge whose busy bit never clears every operation ends,  *)
(* having made a bounded number of waits of at most MaxRetries status      *)
(* reads each.                                                             *)
(***************************************************************************)
C6_BoundedBusyWait ==
    op.env.stuck =>
        /\ \A i \in Events(op.log, "wait") :
              op.log[i][2] >= 1 /\ op.log[i][2] <= MaxRetries
        /\ Cardinality(Events(op.log, "wait")) <= 2 * RomBits + 6

\* A search that walked all 64 bits against the stuck bridge.
C6_Witness ==
    /\ op.name = "search" /\ op.env.stuck /\ op.ret = 1
    /\ Cardinality(Events(op.log, "wait")) = 2 * RomBits + 6
    /\ \A i \in Events(op.log, "wait") : op.log[i][2] = MaxRetries

\* The last call is one of the operations that wait on the busy bit, and waited.
Waited(names) == op.name \in names /\ Events(op.log, "wait") # {}

WaitingOperations ==
    {"reset", "write", "write_bit", "read", "read_bit", "writeConfig",
     "setStrongPullup", "clearStrongPullup", "search"}

(***************************************************************************)
(* C7: against a bridge whose busy bit never clears, the error record is   *)
(* DS2482_ERROR_TIMEOUT when an operation that waited returns.             *)
(***************************************************************************)
C7_TimeoutReported ==
    (op.env.stuck /\ Waited(WaitingOperations)) => mError = DS2482_ERROR_TIMEOUT

\* The operation's last step was the reset cycle of wireReset.
EndsInReset ==
    \/ op.name = "reset"
    \/ op.name = "search" /\ Commands(op.log, DS2482_COMMAND_WRITEBYTE) = {}

\* The operation made no wait after its last writeConfig.
EndsInConfig ==
    \/ op.name \in {"writeConfig", "setStrongPullup", "clearStrongPullup"}
    \/ op.name \in {"write", "write_bit"} /\ op.power # 0

\* The value of the last writeConfig call and the byte it read back.
LastConfigValue(log) == log[Last(Events(log, "writeConfig"))][2]
LastConfigReadback(log) ==
    log[First({i \in Events(log, "rd") : i > Last(Events(log, "writeConfig"))})][2]

(***************************************************************************)
(* C7 as amended: against such a bridge every operation that waited        *)
(* recorded DS2482_ERROR_TIMEOUT, and the error record at its return is    *)
(* DS2482_ERROR_TIMEOUT unless the operation ended in the reset cycle with *)
(* short-detect set in the status it captured (DS2482_ERROR_SHORT), or     *)
(* ended in a writeConfig whose readback differed from the value           *)
(* (DS2482_ERROR_CONFIG).                                                  *)
(***************************************************************************)
C7_TimeoutUnlessOverwritten ==
    (op.env.stuck /\ Waited(WaitingOperations \cup {"select", "skip"})) =>
        /\ \E i \in DOMAIN op.log : op.log[i] = <<"err", DS2482_ERROR_TIMEOUT>>
        /\ mError =
              IF EndsInReset /\ HasBit(ResetStatus(op.log), DS2482_STATUS_SD)
              THEN DS2482_ERROR_SHORT
              ELSE IF EndsInConfig /\ LastConfigReadback(op.log) # LastConfigValue(op.log)
              THEN DS2482_ERROR_CONFIG
              ELSE DS2482_ERROR_TIMEOUT

C7_Witness ==
    /\ op.name = "read" /\ op.env.stuck
    /\ Cardinality(Events(op.log, "wait")) = 2
    /\ mError = DS2482_ERROR_TIMEOUT

(***************************************************************************)
(* C8: if the byte writeConfig(value) reads back differs from value the    *)
(* error record is DS2482_ERROR_CONFIG when it returns; if it equals value *)
(* writeConfig does not record DS2482_ERROR_CONFIG.                        *)
(***************************************************************************)
C8_ConfigVerify ==
    op.name = "writeConfig" =>
        /\ LastConfigValue(op.log) = op.data
        /\ LastConfigReadback(op.log) # op.data => mError = DS2482_ERROR_CONFIG
        /\ LastConfigReadback(op.log) = op.data =>
              \A i \in DOMAIN op.log : op.log[i] # <<"err", DS2482_ERROR_CONFIG>>

\* writeConfig(0x01) against a bridge that reads back 0x00.
C8_Witness ==
    /\ op.name = "writeConfig" /\ op.data = 1
    /\ LastConfigReadback(op.log) = 0
    /\ mError = DS2482_ERROR_CONFIG

(***************************************************************************)
(* C9: setStrongPullup and clearStrongPullup pass to writeConfig the       *)
(* configuration they just read with the strong pullup bit set, or         *)
(* cleared, and every other bit as read.                                   *)
(***************************************************************************)
ConfigRead(log) == log[First(Events(log, "rd"))][2]

C9_PullupBitOnly ==
    /\ op.name = "setStrongPullup" =>
          LastConfigValue(op.log) = Or8(ConfigRead(op.log), DS2482_CONFIG_SPU)
    /\ op.name = "clearStrongPullup" =>
          LastConfigValue(op.log) = And8(ConfigRead(op.log), Not8(DS2482_CONFIG_SPU))

(***************************************************************************)
(* C10: the table step and the eight-iteration bitwise step give the same  *)
(* byte for every accumulator and every input byte, so the table-driven    *)
(* and the bitwise crc8 agree on every input sequence.                     *)
(***************************************************************************)
C10_CrcAgree ==
    /\ crcT = crcB
    /\ crc8TableStep(crcT, crcIn) = crc8BitStep(crcB, crcIn)

C10_Witness ==
    /\ crcLen = MaxCrcLen
    /\ crcT = crcB
    /\ crcT = dscrc_table[Xor8(dscrc_table[1 + 1], 255) + 1]

(***************************************************************************)
(* C11: reset_search is idempotent: from any cursor it leaves              *)
(* searchLastDiscrepancy = 0, searchLastDeviceFlag = 0 and the eight       *)
(* searchAddress bytes zero, a second call in a row changes nothing, and   *)
(* it touches neither the error record, the address, the caller's buffer   *)
(* nor the bridge.                                                         *)
(***************************************************************************)
C11_ResetSearchIdempotent ==
    [][op'.name = "reset_search" =>
          /\ searchLastDiscrepancy' = 0
          /\ searchLastDeviceFlag' = 0
          /\ searchAddress' = ZeroRom
          /\ <<mError, mAddress, newAddr, cfgReg>>' = <<mError, mAddress, newAddr, cfgReg>>
          /\ op'.log = <<>>
          /\ op.name = "reset_search" =>
                <<searchLastDiscrepancy, searchLastDeviceFlag, searchAddress>>'
                    = <<searchLastDiscrepancy, searchLastDeviceFlag, searchAddress>>]_vars

\* reset_search after a search that recorded an error and returned an address.
C11_Witness ==
    /\ op.name = "reset_search"
    /\ searchLastDiscrepancy = 0 /\ searchLastDeviceFlag = 0 /\ searchAddress = ZeroRom
    /\ mError = DS2482_ERROR_SHORT
    /\ mAddress = Or8(DefaultAddress, 3)
    /\ newAddr \in devices

\* A transaction begin() opened is still open when event i of the trace
\* happens: the last begin or end before it is a begin.
OpenAt(log, i) ==
    \E j \in 1..(i - 1) :
        /\ log[j][1] = "begin"
        /\ \A k \in (j + 1)..(i - 1) : log[k][1] # "end"

(***************************************************************************)
(* C12: one transaction at a time: no operation calls begin(), directly or *)
(* through the status reads of waitOnBusy, while a transaction an earlier  *)
(* begin() opened is not yet closed by end(), and every operation returns  *)
(* with its transactions closed.                                           *)
(***************************************************************************)
C12_SingleOpenTransaction ==
    /\ \A i \in DOMAIN op.log :
          op.log[i][1] \in {"begin", "wait"} => ~OpenAt(op.log, i)
    /\ ~OpenAt(op.log, Len(op.log) + 1)

(***************************************************************************)
(* C13: deviceReset sends the bridge exactly one transaction whose only    *)
(* byte is the device-reset command; it polls no status and sends no       *)
(* 1-Wire write-byte command.                                              *)
(***************************************************************************)
C13_DeviceResetFrame ==
    op.name = "deviceReset" =>
        op.log = << <<"begin">>, <<"w", DS2482_COMMAND_RESET>>, <<"end">> >>

OneWireCommands ==
    {DS2482_COMMAND_RESETWIRE, DS2482_COMMAND_WRITEBYTE, DS2482_COMMAND_READBYTE,
     DS2482_COMMAND_SINGLEBIT, DS2482_COMMAND_TRIPLET}

\* The waits that meet the bridge as busy as op.env makes it: the first of
\* the operation, and those right after a transaction with a 1-Wire command.
FreshWaits(log) ==
    {i \in Events(log, "wait") :
        \/ \A j \in 1..(i - 1) : log[j][1] # "wait"
        \/ \E cmd \in OneWireCommands :
              (i - (IF bridgeHasArg(cmd) THEN 3 ELSE 2)) \in Commands(log, cmd)}

(***************************************************************************)
(* C15: waitOnBusy reads the status register at least once and at most     *)
(* MaxRetries times, stops at the first read whose busy bit is clear,      *)
(* returns the last status it read, and records DS2482_ERROR_TIMEOUT       *)
(* exactly when all MaxRetries reads had the busy bit set; a busy bit that *)
(* clears on the last read records none.                                   *)
(***************************************************************************)
C15_WaitOnBusy ==
    /\ \A i \in Events(op.log, "wait") :
          /\ op.log[i][2] \in 1..MaxRetries
          /\ HasBit(op.log[i][3], DS2482_STATUS_BUSY) => op.log[i][2] = MaxRetries
          /\ HasBit(op.log[i][3], DS2482_STATUS_BUSY)
                <=> (i < Len(op.log) /\ op.log[i + 1] = <<"err", DS2482_ERROR_TIMEOUT>>)
    /\ \A i \in FreshWaits(op.log) :
          /\ op.log[i][2] = IF op.env.busyN + 1 < MaxRetries
                            THEN op.env.busyN + 1 ELSE MaxRetries
          /\ HasBit(op.log[i][3], DS2482_STATUS_BUSY) <=> op.env.busyN >= MaxRetries
    /\ \A i \in DOMAIN op.log :
          op.log[i] = <<"err", DS2482_ERROR_TIMEOUT>> => (i > 1 /\ op.log[i - 1][1] = "wait")
    /\ op.name = "read_bit" =>
          op.ret = IF HasBit(op.log[Last(Events(op.log, "wait"))][3], DS2482_STATUS_SBR)
                   THEN 1 ELSE 0

\* The busy bit cleared on the last read of the budget: no timeout.
C15_Witness ==
    /\ op.name = "read_bit" /\ op.env = LastRead
    /\ mError = DS2482_ERROR_NONE
    /\ \E i \in FreshWaits(op.log) :
          op.log[i][2] = MaxRetries /\ ~HasBit(op.log[i][3], DS2482_STATUS_BUSY)

\* The status the search captured after the triplet of bit position i: the
\* triplets of a pass follow each other at a fixed distance in the trace.
TripletStride == 6
TripletStatus(log, i) ==
    log[First(Commands(log, DS2482_COMMAND_TRIPLET)) + TripletStride * i + 3][3]

\* The bit positions of a pass at which both id bits were clear and the
\* direction taken was 0.
Discrepancies(log) ==
    {i \in 0..(RomBits - 1) :
        /\ ~HasBit(TripletStatus(log, i), DS2482_STATUS_SBR)
        /\ ~HasBit(TripletStatus(log, i), DS2482_STATUS_TSB)
        /\ ~HasBit(TripletStatus(log, i), DS2482_STATUS_DIR)}

(***************************************************************************)
(* C16: after a search that returns 1, searchLastDiscrepancy is the        *)
(* highest bit position at which the triplet status had both id bits clear *)
(* and direction 0 (0 if there was none), searchLastDeviceFlag is set      *)
(* exactly when there was no such position, and every bit of searchAddress *)
(* is the direction the triplet reported at its position.                  *)
(***************************************************************************)
C16_DiscrepancyBookkeeping ==
    (op.name = "search" /\ op.ret = 1) =>
        \E Q \in {Discrepancies(op.log)} :
            /\ searchLastDiscrepancy = IF Q = {} THEN 0 ELSE Last(Q)
            /\ (searchLastDeviceFlag # 0) <=> (Q = {})
            /\ \A i \in 0..(RomBits - 1) :
                  RomBit(searchAddress, i)
                      = IF HasBit(TripletStatus(op.log, i), DS2482_STATUS_DIR) THEN 1 ELSE 0

\* The last status a search captured has both id bits set.
TripletConflict(log) ==
    /\ Commands(log, DS2482_COMMAND_TRIPLET) # {}
    /\ HasBit(log[Last(Events(log, "wait"))][3], DS2482_STATUS_SBR)
    /\ HasBit(log[Last(Events(log, "wait"))][3], DS2482_STATUS_TSB)

(***************************************************************************)
(* C17: a search that returns 0 leaves searchLastDiscrepancy and           *)
(* searchLastDeviceFlag as they were and does not write the caller's       *)
(* buffer.  It returns 0 because searchLastDeviceFlag was set, and then    *)
(* it sends the bridge nothing and reads no status; or because the reset   *)
(* found no presence pulse, and then it sends no write-byte command; or    *)
(* because a triplet reported both id bits set.                            *)
(***************************************************************************)
C17_FailedSearchFrame ==
    [][(op'.name = "search" /\ op'.ret = 0) =>
          /\ searchLastDiscrepancy' = searchLastDiscrepancy
          /\ searchLastDeviceFlag' = searchLastDeviceFlag
          /\ newAddr' = newAddr
          /\ IF searchLastDeviceFlag # 0
             THEN op'.log = <<>>
             ELSE IF ~HasBit(ResetStatus(op'.log), DS2482_STATUS_PPD)
             THEN Commands(op'.log, DS2482_COMMAND_WRITEBYTE) = {}
             ELSE TripletConflict(op'.log)]_vars

\* A pass given up at the last bit: the ROM buffer was rewritten, the cursor
\* and the caller's buffer were not.
C17_Witness ==
    /\ op.name = "search" /\ op.ret = 0
    /\ TripletConflict(op.log)
    /\ Cardinality(Commands(op.log, DS2482_COMMAND_TRIPLET)) = RomBits
    /\ searchLastDiscrepancy = 0 /\ searchLastDeviceFlag = 0
    /\ searchAddress # ZeroRom
    /\ newAddr = UnwrittenRom

\* The begin or written byte before event i of the trace, reads and error
\* records skipped.
RECURSIVE PreviousWrite(_, _)
PreviousWrite(log, i) ==
    IF log[i - 1][1] \in {"rd", "err"} THEN PreviousWrite(log, i - 1) ELSE i - 1

\* The written byte at i is a command of its transaction, not a parameter:
\* it follows begin, a command without parameter, or a parameter.
RECURSIVE IsCommand(_, _)
IsCommand(log, i) ==
    /\ log[i][1] = "w"
    /\ \E p \in {PreviousWrite(log, i)} :
          \/ log[p][1] = "begin"
          \/ log[p][1] = "w" /\ (IsCommand(log, p) => ~bridgeHasArg(log[p][2]))

\* The written byte at i is a command that starts activity on the 1-Wire line.
IsOneWireCommand(log, i) ==
    /\ log[i][1] = "w"
    /\ log[i][2] \in OneWireCommands
    /\ IsCommand(log, i)

\* Going back from event i, a wait is met before another 1-Wire command.
RECURSIVE WaitedSince(_, _)
WaitedSince(log, i) ==
    /\ i >= 1
    /\ \/ log[i][1] = "wait"
       \/ ~IsOneWireCommand(log, i) /\ WaitedSince(log, i - 1)

(***************************************************************************)
(* C18: idle before every command: in every operation each command that    *)
(* starts activity on the 1-Wire line (1-Wire reset, write byte, read      *)
(* byte, single bit, triplet) is sent after a waitOnBusy made since the    *)
(* previous such command.                                                  *)
(***************************************************************************)
C18_IdleBeforeCommand ==
    \A i \in DOMAIN op.log :
        IsOneWireCommand(op.log, i) => WaitedSince(op.log, i - 1)

\* The write-configuration commands of a trace, and the value each encodes:
\* the argument of writeConfig, or in wireWriteBytes the byte just read with
\* the strong pullup bit set.
ConfigWrites(log) ==
    {i \in DOMAIN log : log[i] = <<"w", DS2482_COMMAND_WRITECONFIG>> /\ IsCommand(log, i)}
ConfigWritten(log, i) ==
    IF log[i - 1][1] = "rd"
    THEN Or8(log[i - 1][2], DS2482_CONFIG_SPU)
    ELSE log[Last({j \in Events(log, "writeConfig") : j < i})][2]

\* Byte p has lower nibble v and upper nibble the complement of v.
NibbleAndComplement(p, v) ==
    /\ p \in Byte
    /\ p % 16 = v
    /\ p \div 16 = 15 - v

(***************************************************************************)
(* C19: for every configuration value v in 0..15 the byte sent after the   *)
(* write-configuration command has lower nibble v and upper nibble the     *)
(* complement of v, and wireWriteBytes' inline write builds the same byte  *)
(* as writeConfig for the same v.                                          *)
(***************************************************************************)
C19_ConfigFrame ==
    /\ (cfgFrame # <<>> /\ cfgValue \in 0..15) =>
          /\ cfgFrame[1] = DS2482_COMMAND_WRITECONFIG
          /\ NibbleAndComplement(cfgFrame[2], cfgValue)
          /\ cfgInline = cfgFrame
    /\ \A i \in ConfigWrites(op.log) :
          ConfigWritten(op.log, i) \in 0..15 =>
              NibbleAndComplement(op.log[i + 1][2], ConfigWritten(op.log, i))

\* Both call sites built the frame of 0x0D, and writeConfig(0x0D) sent it.
C19_Witness ==
    /\ cfgValue = 13
    /\ cfgFrame = <<DS2482_COMMAND_WRITECONFIG, 45>>
    /\ cfgInline = cfgFrame
    /\ op.name = "writeConfig" /\ op.data = 13
    /\ \E i \in ConfigWrites(op.log) : op.log[i + 1] = <<"w", 45>>

(***************************************************************************)
(* C20: the error record is sticky: it is DS2482_ERROR_NONE after          *)
(* construction, an operation changes it only by recording a timeout, a    *)
(* short or a configuration mismatch it detected, and once it is not       *)
(* DS2482_ERROR_NONE no operation sets it back.                            *)
(***************************************************************************)
C20_StickyError ==
    /\ mError = DS2482_ERROR_NONE
    /\ [][/\ mError' # mError =>
                /\ mError' \in {DS2482_ERROR_TIMEOUT, DS2482_ERROR_SHORT, DS2482_ERROR_CONFIG}
                /\ \E i \in DOMAIN op'.log : op'.log[i] = <<"err", mError'>>
          /\ mError # DS2482_ERROR_NONE => mError' # DS2482_ERROR_NONE]_vars

\* A reset that found a device and detected nothing, with an earlier error
\* still on record.
C20_Witness ==
    /\ op.name = "reset" /\ op.ret = 1
    /\ Events(op.log, "err") = {}
    /\ mError = DS2482_ERROR_TIMEOUT

====
